---- MODULE Spec2Model ----
(***************************************************************************)
(* A model of the fingerprint index of shazam-app (src/fingerprint.py):    *)
(* the hasher _generate_hashes, and FingerprintDB with add_track,          *)
(* recognise, save and load; and of the record button of the desktop       *)
(* application (src/app.py): the GUI thread, its queue of signals and the  *)
(* record_and_identify background threads.                                 *)
(*                                                                         *)
(* An audio file is represented by its path and by the constellation map   *)
(* (the array of (time_index, frequency_index) rows) that                  *)
(* _compute_constellation_map returns for it; the STFT and the peak        *)
(* picking are floating-point signal processing and are not modelled.      *)
(* Python dicts are modelled as insertion-ordered sequences of <<key,      *)
(* value>> pairs, Python lists and tuples as sequences, and an Optional    *)
(* value as a sequence of length 0 (None) or 1.                            *)
(***************************************************************************)
EXTENDS Integers, Sequences, FiniteSets, TLC

VARIABLES
    objs,       \* the FingerprintDB objects: objs[1] is FingerprintDB(), objs[2] (when present) the result of load
    file,       \* the content of the database file written by save, <<>> while it does not exist
    ret,        \* the call that just completed, with its arguments and its result
    added,      \* per object, the tracks add_track has inserted into it, in call order (history)
    savedIdx,   \* the index object as it was when save wrote file (history)
    argsortTies,\* how this build's np.argsort(kind='quicksort') orders equal keys
    hIn,        \* hasher harness: the peak array given to _generate_hashes
    hOut,       \* hasher harness: the list _generate_hashes returned
    hPc,        \* hasher harness: "call" before the call, "done" after it
    button,     \* app: self.button.isEnabled()
    label,      \* app: which text self.label shows
    threads,    \* app: the record_and_identify threads started so far, in start order
    queue,      \* app: the signals emitted to the GUI thread and not yet delivered to a slot
    dialogs,    \* app: the recordings whose QMessageBox.critical is open, innermost last
    shown       \* app: the (track_id, score) of the finished signal handled last, in a 1-sequence

appVars == <<button, label, threads, queue, dialogs, shown>>

vars == <<objs, file, ret, added, savedIdx, argsortTies, hIn, hOut, hPc,
          button, label, threads, queue, dialogs, shown>>

----------------------------------------------------------------------------
(* Bounds of the model *)

\* add_track calls (completed or raised) made on one index object
MaxTracks == 2

\* rows of a peak array given to the hasher on its own
MaxPeaks == 3

\* largest constant added to the time-bins of a query when checking time shifts
MaxShift == 2

\* recordings started in one run of the desktop application
MaxRecordings == 3

----------------------------------------------------------------------------
(* Integer bit operations on non-negative numpy int64 values *)

RECURSIVE BitAnd(_, _)
BitAnd(a, b) ==
    IF a = 0 \/ b = 0 THEN 0
    ELSE (IF a % 2 = 1 /\ b % 2 = 1 THEN 1 ELSE 0) + 2 * BitAnd(a \div 2, b \div 2)

RECURSIVE BitOr(_, _)
BitOr(a, b) ==
    IF a = 0 THEN b
    ELSE IF b = 0 THEN a
    ELSE (IF a % 2 = 1 \/ b % 2 = 1 THEN 1 ELSE 0) + 2 * BitOr(a \div 2, b \div 2)

ShiftLeft(a, n) == a * 2^n

----------------------------------------------------------------------------
(* _generate_hashes *)

fan_value == 10
min_time_delta == 0
max_time_delta == 200

\* The tie orders of np.argsort the model distinguishes: the default kind is
\* not stable, so rows with equal time_index may come out in input order or not.
TiePolicies == {"stable", "reversed"}

\* insert row p into the time-sorted sequence s; among equal keys it goes last
\* (ties = "stable") or first (ties = "reversed")
RECURSIVE InsertByTime(_, _, _)
InsertByTime(s, p, ties) ==
    IF s = <<>> THEN <<p>>
    ELSE IF Head(s)[1] < p[1] \/ (Head(s)[1] = p[1] /\ ties = "stable")
         THEN <<Head(s)>> \o InsertByTime(Tail(s), p, ties)
         ELSE <<p>> \o s

\* peaks[np.argsort(peaks[:, 0])]
RECURSIVE ArgsortByTime(_, _)
ArgsortByTime(peaks, ties) ==
    IF peaks = <<>> THEN <<>>
    ELSE InsertByTime(ArgsortByTime(SubSeq(peaks, 1, Len(peaks) - 1), ties),
                      peaks[Len(peaks)], ties)

\* a variant that clamps the frequency bins to 0x3FF where the code masks them
HashValClamped(anchor_freq, target_freq, dt) ==
    BitOr(BitOr(ShiftLeft(IF anchor_freq > 1023 THEN 1023 ELSE anchor_freq, 22),
                ShiftLeft(IF target_freq > 1023 THEN 1023 ELSE target_freq, 12)),
          BitAnd(dt, 4095))

\* (anchor_freq & 0x3FF) << 22 | (target_freq & 0x3FF) << 12 | (dt & 0xFFF)
HashVal(anchor_freq, target_freq, dt) ==
    BitOr(BitOr(ShiftLeft(BitAnd(anchor_freq, 1023), 22),
                ShiftLeft(BitAnd(target_freq, 1023), 12)),
          BitAnd(dt, 4095))

\* a variant without the "if dt > max_time_delta: break" test
RECURSIVE TargetsFromNoMaxBreak(_, _, _)
TargetsFromNoMaxBreak(sorted, i, j) ==
    IF j > fan_value THEN <<>>
    ELSE IF i + j > Len(sorted) THEN <<>>
    ELSE LET dt == sorted[i + j][1] - sorted[i][1] IN
         IF dt < min_time_delta THEN TargetsFromNoMaxBreak(sorted, i, j + 1)
         ELSE <<<<i, i + j>>>> \o TargetsFromNoMaxBreak(sorted, i, j + 1)

\* the inner loop "for j in range(1, fan_value + 1)" for anchor i (1-based),
\* from j on: the <<anchor index, target index>> pairs for which a hash is appended
RECURSIVE TargetsFrom(_, _, _)
TargetsFrom(sorted, i, j) ==
    IF j > fan_value THEN <<>>
    ELSE IF i + j > Len(sorted) THEN <<>>                         \* break
    ELSE LET dt == sorted[i + j][1] - sorted[i][1] IN
         IF dt < min_time_delta THEN TargetsFrom(sorted, i, j + 1) \* continue
         ELSE IF dt > max_time_delta THEN <<>>                     \* break
         ELSE <<<<i, i + j>>>> \o TargetsFrom(sorted, i, j + 1)

\* the outer loop "for i in range(len(peaks))", from anchor i on
RECURSIVE PairsFrom(_, _)
PairsFrom(sorted, i) ==
    IF i > Len(sorted) THEN <<>>
    ELSE TargetsFrom(sorted, i, 1) \o PairsFrom(sorted, i + 1)

HashPairs(sorted) == PairsFrom(sorted, 1)

\* a variant that packs the target's time bin where the code packs dt
RECURSIVE HashesOfPairsAbsTime(_, _, _)
HashesOfPairsAbsTime(sorted, pairs, k) ==
    IF k > Len(pairs) THEN <<>>
    ELSE LET a == sorted[pairs[k][1]]
             t == sorted[pairs[k][2]]
         IN  << <<HashVal(a[2], t[2], t[1]), a[1]>> >>
             \o HashesOfPairsAbsTime(sorted, pairs, k + 1)

\* hashes.append((hash_val, anchor_time)) for the pairs from the k-th on
RECURSIVE HashesOfPairs(_, _, _)
HashesOfPairs(sorted, pairs, k) ==
    IF k > Len(pairs) THEN <<>>
    ELSE LET a == sorted[pairs[k][1]]
             t == sorted[pairs[k][2]]
         IN  << <<HashVal(a[2], t[2], t[1] - a[1]), a[1]>> >>
             \o HashesOfPairs(sorted, pairs, k + 1)

\* the list of (hash_val, anchor_time) tuples _generate_hashes returns
GenerateHashesWith(peaks, ties) ==
    LET sorted == ArgsortByTime(peaks, ties)
    IN  HashesOfPairs(sorted, HashPairs(sorted), 1)

----------------------------------------------------------------------------
(* Python dict: an insertion-ordered sequence of <<key, value>> pairs *)

DictKeys(d) == {d[n][1] : n \in 1..Len(d)}

DictHas(d, k) == \E n \in 1..Len(d) : d[n][1] = k

\* the position of the present key k
DictIndex(d, k) == CHOOSE n \in 1..Len(d) : d[n][1] = k

\* d[k] for a key that is present
DictGet(d, k) == d[DictIndex(d, k)][2]

\* d.get(k, default)
DictGetOr(d, k, default) == IF DictHas(d, k) THEN DictGet(d, k) ELSE default

\* d[k] = v: a present key keeps its position, a new key goes last
DictSet(d, k, v) ==
    IF DictHas(d, k)
    THEN LET n == DictIndex(d, k) IN
         SubSeq(d, 1, n - 1) \o << <<k, v>> >> \o SubSeq(d, n + 1, Len(d))
    ELSE Append(d, <<k, v>>)

----------------------------------------------------------------------------
(* Audio files *)

\* os.path.basename of a path given as <<directory, file name>>
Basename(path) == path[2]

\* The audio files of the model. peaks is the constellation map of the file in
\* the row order of np.where: ascending frequency bin, then ascending time bin.
\* With window_size 4096 the frequency bins run over 0..2048.
FileX == [path |-> <<"music", "x.wav">>, peaks |-> << <<0, 10>>, <<1, 20>> >>]
FileY == [path |-> <<"music", "y.wav">>, peaks |-> << <<0, 30>>, <<1, 40>> >>]
FileU == [path |-> <<"music", "u.wav">>, peaks |-> << <<0, 10>>, <<1, 20>>, <<1, 1044>> >>]
FileE == [path |-> <<"music", "e.wav">>, peaks |-> << <<5, 7>> >>]
FileQ == [path |-> <<"tmp", "q.wav">>,
          peaks |-> << <<300, 10>>, <<600, 10>>, <<301, 20>>, <<601, 20>>,
                       <<0, 30>>, <<1, 40>> >>]

\* the files recognise is called with
AudioFiles == {FileX, FileY, FileU, FileE, FileQ}

\* the add_track(filepath, metadata) calls that are made; metadata is None or a dict
TrackArgs ==
    { <<FileX, <<>> >>,
      <<FileY, << <<"title", "Song">>, <<"artist", "Band">> >> >>,
      <<FileU, <<>> >>,
      <<FileE, <<>> >> }

\* the peak array with the constant c added to every time-bin
Shift(peaks, c) == [n \in 1..Len(peaks) |-> <<peaks[n][1] + c, peaks[n][2]>>] \o <<>>

\* The peak arrays of the audio files and of their time shifts, with the list
\* _generate_hashes returns for each: evaluated once and looked up afterwards.
CachedPeaks == {Shift(f.peaks, c) : f \in AudioFiles, c \in 0..MaxShift}

HashCache == [p \in CachedPeaks, t \in TiePolicies |-> GenerateHashesWith(p, t)]

\* _generate_hashes(peaks) with the default parameters, in this build
_generate_hashes(peaks) ==
    IF peaks \in CachedPeaks THEN HashCache[peaks, argsortTies]
    ELSE GenerateHashesWith(peaks, argsortTies)

----------------------------------------------------------------------------
(* FingerprintDB *)

\* FingerprintDB.__init__
NewIndex == [hash_table |-> <<>>, metadata |-> <<>>, next_track_id |-> 0]

\* a variant whose loop stops one hash short
RECURSIVE InsertHashesSkipLast(_, _, _, _)
InsertHashesSkipLast(hash_table, hashes, n, track_id) ==
    IF n >= Len(hashes) THEN hash_table
    ELSE LET h      == hashes[n][1]
             offset == hashes[n][2]
             posts  == DictGetOr(hash_table, h, <<>>)
         IN  InsertHashesSkipLast(DictSet(hash_table, h, Append(posts, <<track_id, offset>>)),
                                  hashes, n + 1, track_id)

\* a variant that assigns hash_table[h] = [(track_id, offset)] where the code appends
RECURSIVE InsertHashesOverwrite(_, _, _, _)
InsertHashesOverwrite(hash_table, hashes, n, track_id) ==
    IF n > Len(hashes) THEN hash_table
    ELSE InsertHashesOverwrite(DictSet(hash_table, hashes[n][1],
                                       << <<track_id, hashes[n][2]>> >>),
                               hashes, n + 1, track_id)

\* for h, offset in hashes[n..]: hash_table.setdefault(h, []).append((track_id, offset))
RECURSIVE InsertHashes(_, _, _, _)
InsertHashes(hash_table, hashes, n, track_id) ==
    IF n > Len(hashes) THEN hash_table
    ELSE LET h      == hashes[n][1]
             offset == hashes[n][2]
             posts  == DictGetOr(hash_table, h, <<>>)
         IN  InsertHashes(DictSet(hash_table, h, Append(posts, <<track_id, offset>>)),
                          hashes, n + 1, track_id)

\* track_id = self._next_track_id: the id add_track takes, and returns
AddTrackId(idx) == idx.next_track_id

\* a variant that stores the metadata under self._next_track_id after the increment
AddTrackIndexMetaUnderNextId(idx, f, metadata) ==
    LET track_id == AddTrackId(idx)
        hashes   == _generate_hashes(f.peaks)
        meta     == IF metadata = <<>> THEN << <<"title", Basename(f.path)>> >>
                    ELSE metadata
    IN  [hash_table    |-> InsertHashes(idx.hash_table, hashes, 1, track_id),
         metadata      |-> DictSet(idx.metadata, idx.next_track_id + 1, meta),
         next_track_id |-> idx.next_track_id + 1]

\* the index after add_track(filepath, metadata) returns, for the audio file f
AddTrackIndex(idx, f, metadata) ==
    LET track_id == AddTrackId(idx)
        hashes   == _generate_hashes(f.peaks)
        meta     == IF metadata = <<>> THEN << <<"title", Basename(f.path)>> >>
                    ELSE metadata
    IN  [hash_table    |-> InsertHashes(idx.hash_table, hashes, 1, track_id),
         metadata      |-> DictSet(idx.metadata, track_id, meta),
         next_track_id |-> idx.next_track_id + 1]

\* the index after add_track raised in wavfile.read or in the fingerprinting:
\* the id was taken at the top of the method, nothing else was done
AddTrackRaisedIndex(idx) ==
    [idx EXCEPT !.next_track_id = idx.next_track_id + 1]

\* votes after "for track_id, db_offset in matches[n..]" for the query anchor offset
RECURSIVE VoteMatches(_, _, _, _)
VoteMatches(votes, matches, n, offset) ==
    IF n > Len(matches) THEN votes
    ELSE LET track_id == matches[n][1]
             dt       == matches[n][2] - offset
             offsets  == DictGetOr(votes, track_id, <<>>)
             count    == DictGetOr(offsets, dt, 0)
         IN  VoteMatches(DictSet(votes, track_id, DictSet(offsets, dt, count + 1)),
                         matches, n + 1, offset)

\* votes after "for h, offset in hashes[n..]"
RECURSIVE VoteHashes(_, _, _, _)
VoteHashes(votes, hash_table, hashes, n) ==
    IF n > Len(hashes) THEN votes
    ELSE LET matches == DictGetOr(hash_table, hashes[n][1], <<>>) IN
         IF matches = <<>> THEN VoteHashes(votes, hash_table, hashes, n + 1)
         ELSE VoteHashes(VoteMatches(votes, matches, 1, hashes[n][2]),
                         hash_table, hashes, n + 1)

\* a variant that scores a track by all its matching hashes: sum(offsets.values())
RECURSIVE SumOfValues(_)
SumOfValues(offsets) ==
    IF offsets = <<>> THEN 0 ELSE Head(offsets)[2] + SumOfValues(Tail(offsets))

\* max(offsets.values())
MaxValue(offsets) ==
    CHOOSE m \in {offsets[n][2] : n \in 1..Len(offsets)} :
        \A n \in 1..Len(offsets) : offsets[n][2] <= m

\* a variant that compares with >=, so that the last of several tied tracks wins
RECURSIVE BestFromLastWins(_, _, _)
BestFromLastWins(votes, n, best) ==
    IF n > Len(votes) THEN best
    ELSE LET score == MaxValue(votes[n][2]) IN
         IF score >= best[2] THEN BestFromLastWins(votes, n + 1, << <<votes[n][1]>>, score >>)
         ELSE BestFromLastWins(votes, n + 1, best)

\* "for track_id, offsets in votes.items()" from entry n on; best is
\* <<best_track, best_score>> with best_track an Optional
RECURSIVE BestFrom(_, _, _)
BestFrom(votes, n, best) ==
    IF n > Len(votes) THEN best
    ELSE LET score == MaxValue(votes[n][2]) IN
         IF score > best[2] THEN BestFrom(votes, n + 1, << <<votes[n][1]>>, score >>)
         ELSE BestFrom(votes, n + 1, best)

Votes(idx, peaks) == VoteHashes(<<>>, idx.hash_table, _generate_hashes(peaks), 1)

\* a variant that starts from best_score = 1
RecogniseResultFromOne(idx, peaks) == BestFrom(Votes(idx, peaks), 1, << <<>>, 1 >>)

\* <<best_track, best_score>> returned by recognise for an audio file with these peaks
RecogniseResult(idx, peaks) == BestFrom(Votes(idx, peaks), 1, << <<>>, 0 >>)

\* a variant that looks a token up with setdefault(h, []), which adds absent keys
HashTableAfterSetDefault(hash_table, h) ==
    IF DictHas(hash_table, h) THEN hash_table ELSE DictSet(hash_table, h, <<>>)

\* self.hash_table after "matches = self.hash_table.get(h)": get adds no key
HashTableAfterGet(hash_table, h) == hash_table

\* the index after recognise has run "for h, offset in hashes[n..]": the loop
\* assigns to votes, best_track and best_score only, and reads self.hash_table
RECURSIVE RecogniseIndex(_, _, _)
RecogniseIndex(idx, hashes, n) ==
    IF n > Len(hashes) THEN idx
    ELSE RecogniseIndex([idx EXCEPT !.hash_table = HashTableAfterGet(@, hashes[n][1])],
                        hashes, n + 1)

\* pickle of a dict: its keys and values alternate in the stream
RECURSIVE PickleDict(_)
PickleDict(d) ==
    IF d = <<>> THEN <<>>
    ELSE <<Head(d)[1], Head(d)[2]>> \o PickleDict(Tail(d))

\* unpickling sets the items in stream order
RECURSIVE UnpickleDict(_)
UnpickleDict(s) ==
    IF Len(s) < 2 THEN <<>>
    ELSE DictSet(UnpickleDict(SubSeq(s, 1, Len(s) - 2)), s[Len(s) - 1], s[Len(s)])

\* pickle.dump({'hash_table': ..., 'metadata': ..., '_next_track_id': ...}, f)
Dump(idx) ==
    PickleDict(<< <<"hash_table", PickleDict(idx.hash_table)>>,
                  <<"metadata", PickleDict(idx.metadata)>>,
                  <<"_next_track_id", idx.next_track_id>> >>)

\* a variant that recounts the next id from the metadata instead of reading it
LoadIndexCountsMetadata(payload) ==
    LET data == UnpickleDict(payload) IN
    [hash_table    |-> UnpickleDict(DictGet(data, "hash_table")),
     metadata      |-> UnpickleDict(DictGet(data, "metadata")),
     next_track_id |-> Len(UnpickleDict(DictGet(data, "metadata")))]

\* FingerprintDB.load: obj = cls(), then the three fields from the payload
LoadIndex(payload) ==
    LET data == UnpickleDict(payload) IN
    [hash_table    |-> UnpickleDict(DictGet(data, "hash_table")),
     metadata      |-> UnpickleDict(DictGet(data, "metadata")),
     next_track_id |-> DictGet(data, "_next_track_id")]

----------------------------------------------------------------------------
(* The index objects and the calls made on them *)

\* MainWindow.__init__: the button is enabled, the label shows the prompt, no
\* thread has been started and no signal is pending
AppStart ==
    /\ button = TRUE
    /\ label = "prompt"
    /\ threads = <<>>
    /\ queue = <<>>
    /\ dialogs = <<>>
    /\ shown = <<>>

\* The objects add_track is called on: build_db.py and evaluate_dataset.py add
\* tracks to the FingerprintDB() they construct; app.py loads and recognises.
Built == {1}

Call(op, o, peaks, track, score) ==
    [op |-> op, obj |-> o, peaks |-> peaks, track |-> track, score |-> score]

Init ==
    /\ objs = <<NewIndex>>
    /\ file = <<>>
    /\ ret = Call("new", 1, <<>>, <<>>, 0)
    /\ added = << <<>> >>
    /\ savedIdx = <<>>
    /\ argsortTies \in TiePolicies
    /\ hIn = <<>>
    /\ hOut = <<>>
    /\ hPc = "idle"
    /\ AppStart

\* objs[o].add_track(f.path, metadata) returns
AddTrack(o, f, metadata) ==
    /\ objs[o].next_track_id < MaxTracks
    /\ objs' = [objs EXCEPT ![o] = AddTrackIndex(objs[o], f, metadata)]
    /\ ret' = Call("add_track", o, f.peaks, <<AddTrackId(objs[o])>>, 0)
    /\ added' = [added EXCEPT ![o] =
                    Append(@, [id |-> AddTrackId(objs[o]), file |-> f, metadata |-> metadata])]
    /\ UNCHANGED <<file, savedIdx, argsortTies, hIn, hOut, hPc>>
    /\ UNCHANGED appVars

\* objs[o].add_track(path) raises: the file at path cannot be read
AddTrackRaises(o) ==
    /\ objs[o].next_track_id < MaxTracks
    /\ objs' = [objs EXCEPT ![o] = AddTrackRaisedIndex(objs[o])]
    /\ ret' = Call("add_track_raised", o, <<>>, <<>>, 0)
    /\ UNCHANGED <<file, added, savedIdx, argsortTies, hIn, hOut, hPc>>
    /\ UNCHANGED appVars

\* objs[o].recognise(f.path) returns
Recognise(o, f) ==
    /\ LET r == RecogniseResult(objs[o], f.peaks) IN
       ret' = Call("recognise", o, f.peaks, r[1], r[2])
    /\ objs' = [objs EXCEPT ![o] = RecogniseIndex(objs[o], _generate_hashes(f.peaks), 1)]
    /\ UNCHANGED <<file, added, savedIdx, argsortTies, hIn, hOut, hPc>>
    /\ UNCHANGED appVars

\* objs[o].save(filename)
Save(o) ==
    /\ file' = Dump(objs[o])
    /\ savedIdx' = <<objs[o]>>
    /\ ret' = Call("save", o, <<>>, <<>>, 0)
    /\ UNCHANGED <<objs, added, argsortTies, hIn, hOut, hPc>>
    /\ UNCHANGED appVars

\* FingerprintDB.load(filename) of a file that save wrote
Load ==
    /\ file # <<>>
    /\ objs' = <<objs[1], LoadIndex(file)>>
    /\ added' = <<added[1], <<>> >>
    /\ ret' = Call("load", 2, <<>>, <<>>, 0)
    /\ UNCHANGED <<file, savedIdx, argsortTies, hIn, hOut, hPc>>
    /\ UNCHANGED appVars

Next ==
    \/ \E o \in Built, a \in TrackArgs : AddTrack(o, a[1], a[2])
    \/ \E o \in Built : AddTrackRaises(o)
    \/ \E o \in 1..Len(objs), f \in AudioFiles : Recognise(o, f)
    \/ \E o \in 1..Len(objs) : Save(o)
    \/ Load

Spec == Init /\ [][Next]_vars

----------------------------------------------------------------------------
(* The hasher on its own: _generate_hashes called once on a peak array *)

\* the time bins and frequency bins of the rows; 201 - 1 is max_time_delta,
\* 1034 and 2048 are frequency bins above 0x3FF. Every bin f of the model has
\* f & 0x3FF < 512, which keeps the tokens below 2^31.
HasherTimes == {0, 1, 201}
HasherFreqs == {10, 1034, 2048}

\* arrays of at most MaxPeaks distinct rows, in any order
HasherInputs ==
    UNION { { s \in [1..k -> HasherTimes \X HasherFreqs] :
                \A a, b \in 1..k : a # b => s[a] # s[b] } : k \in 0..MaxPeaks }

\* two longer arrays in ascending time order: three rows with distinct time
\* bins, and thirteen rows of which the first has more than fan_value rows
\* within max_time_delta after it and the last lies beyond max_time_delta
PeaksThree == << <<0, 100>>, <<5, 200>>, <<7, 150>> >>
PeaksLong == [n \in 1..12 |-> <<n - 1, 10 * n>>] \o << <<300, 7>> >>
HasherLists == {PeaksThree, PeaksLong}

InitHasher ==
    /\ objs = <<NewIndex>>
    /\ file = <<>>
    /\ ret = Call("new", 1, <<>>, <<>>, 0)
    /\ added = << <<>> >>
    /\ savedIdx = <<>>
    /\ argsortTies \in TiePolicies
    /\ hIn \in HasherInputs \cup HasherLists
    /\ hOut = <<>>
    /\ hPc = "call"
    /\ AppStart

\* hashes = _generate_hashes(peaks)
HashCall ==
    /\ hPc = "call"
    /\ hOut' = _generate_hashes(hIn)
    /\ hPc' = "done"
    /\ UNCHANGED <<objs, file, ret, added, savedIdx, argsortTies, hIn>>
    /\ UNCHANGED appVars

NextHasher == HashCall

SpecHasher == InitHasher /\ [][NextHasher]_vars

----------------------------------------------------------------------------
(* The desktop application: MainWindow, its record button and its threads *)

dbVars == <<objs, file, ret, added, savedIdx, argsortTies, hIn, hOut, hPc>>

\* what self.db.recognise(tmpfile) returns to the thread: (None, 0), or a track
\* id with a score of at least 1
AppResults == { << <<>>, 0 >> } \cup { << <<t>>, s >> : t \in 0..1, s \in {1, 4, 5, 6} }

\* a variant of handle_record that leaves the button as it is
ButtonLeftEnabled == TRUE

\* handle_record: self.button.setEnabled(False)
HandleRecordButton == FALSE

\* "if track_id is None or score < 5" fails: the result is shown as a match
ShownAsMatch(track_id, score) == ~(track_id = <<>> \/ score < 5)

\* a signal of MainWindow emitted by the thread of recording rec
Signal(kind, rec, track_id, score) ==
    [kind |-> kind, rec |-> rec, track_id |-> track_id, score |-> score]

\* The button is clicked and handle_record runs in the GUI thread. A disabled
\* QPushButton emits no clicked signal, and an open QMessageBox is modal: it
\* takes the input of the window. Each thread carries the list of the signals
\* it has emitted and whether the GUI thread has handled its result (history).
HandleRecord ==
    /\ button = TRUE
    /\ dialogs = <<>>
    /\ Len(threads) < MaxRecordings
    /\ button' = HandleRecordButton
    /\ label' = "recording"
    /\ threads' = Append(threads, [pc |-> "rec", emitted |-> <<>>, handled |-> FALSE])
    /\ UNCHANGED <<queue, dialogs, shown>>
    /\ UNCHANGED dbVars

\* record_and_identify of recording n: sd.rec, sd.wait and wavwrite return
ThreadRecord(n) ==
    /\ threads[n].pc = "rec"
    /\ threads' = [threads EXCEPT ![n].pc = "recog"]
    /\ UNCHANGED <<button, label, queue, dialogs, shown>>
    /\ UNCHANGED dbVars

\* record_and_identify of recording n: recognise returns r, the temporary file
\* is removed, self.finished.emit(track_id, score), and the thread ends
ThreadFinished(n, r) ==
    /\ threads[n].pc = "recog"
    /\ queue' = Append(queue, Signal("finished", n, r[1], r[2]))
    /\ threads' = [threads EXCEPT ![n].pc = "done",
                                  ![n].emitted = Append(@, "finished")]
    /\ UNCHANGED <<button, label, dialogs, shown>>
    /\ UNCHANGED dbVars

\* record_and_identify of recording n: recording, writing or recognise raises an
\* Exception; "except Exception as e: self.error_signal.emit(str(e))", and the
\* thread ends
ThreadError(n) ==
    /\ threads[n].pc \in {"rec", "recog"}
    /\ queue' = Append(queue, Signal("error_signal", n, <<>>, 0))
    /\ threads' = [threads EXCEPT ![n].pc = "done",
                                  ![n].emitted = Append(@, "error_signal")]
    /\ UNCHANGED <<button, label, dialogs, shown>>
    /\ UNCHANGED dbVars

\* the GUI thread delivers a finished signal to on_recognition_finished (also
\* from the event loop of an open message box)
OnRecognitionFinished ==
    /\ queue # <<>>
    /\ Head(queue).kind = "finished"
    /\ label' = IF ShownAsMatch(Head(queue).track_id, Head(queue).score)
                 THEN "matched" ELSE "no match"
    /\ button' = TRUE
    /\ shown' = << <<Head(queue).track_id, Head(queue).score>> >>
    /\ threads' = [threads EXCEPT ![Head(queue).rec].handled = TRUE]
    /\ queue' = Tail(queue)
    /\ UNCHANGED dialogs
    /\ UNCHANGED dbVars

\* the GUI thread delivers an error_signal to on_error, which opens
\* QMessageBox.critical and waits in it
OnError ==
    /\ queue # <<>>
    /\ Head(queue).kind = "error_signal"
    /\ dialogs' = Append(dialogs, Head(queue).rec)
    /\ queue' = Tail(queue)
    /\ UNCHANGED <<button, label, threads, shown>>
    /\ UNCHANGED dbVars

\* the innermost message box is closed and on_error goes on:
\* self.button.setEnabled(True), the label shows the prompt again
OnErrorClosed ==
    /\ dialogs # <<>>
    /\ button' = TRUE
    /\ label' = "prompt"
    /\ threads' = [threads EXCEPT ![dialogs[Len(dialogs)]].handled = TRUE]
    /\ dialogs' = SubSeq(dialogs, 1, Len(dialogs) - 1)
    /\ UNCHANGED <<queue, shown>>
    /\ UNCHANGED dbVars

InitApp == Init

NextApp ==
    \/ HandleRecord
    \/ \E n \in 1..Len(threads) : ThreadRecord(n)
    \/ \E n \in 1..Len(threads), r \in AppResults : ThreadFinished(n, r)
    \/ \E n \in 1..Len(threads) : ThreadError(n)
    \/ OnRecognitionFinished
    \/ OnError
    \/ OnErrorClosed

SpecApp == InitApp /\ [][NextApp]_vars

----------------------------------------------------------------------------
(* What the claims speak of, stated without the code's vote dictionaries *)

\* the posting list under token h, empty when h is no key
Postings(idx, h) == DictGetOr(idx.hash_table, h, <<>>)

\* every <<track id, anchor time>> posting of the index
AllPostings(idx) ==
    UNION { { idx.hash_table[n][2][p] : p \in 1..Len(idx.hash_table[n][2]) } :
            n \in 1..Len(idx.hash_table) }

\* the (query pair k, posting p) matches: posting p stands under the token of pair k
Matches(idx, hashes) ==
    UNION { { <<k, p>> : p \in 1..Len(Postings(idx, hashes[k][1])) } : k \in 1..Len(hashes) }

\* the track and the offset db_anchor - q_anchor of a match
MatchTrack(idx, hashes, m) == Postings(idx, hashes[m[1]][1])[m[2]][1]
MatchOffset(idx, hashes, m) == Postings(idx, hashes[m[1]][1])[m[2]][2] - hashes[m[1]][2]

\* the number of matches of track tid at offset d
MatchCount(idx, hashes, tid, d) ==
    Cardinality({ m \in Matches(idx, hashes) :
                    MatchTrack(idx, hashes, m) = tid /\ MatchOffset(idx, hashes, m) = d })

\* the modal-offset count of track tid: its largest MatchCount over the offsets, 0 without a match
ModalCount(idx, hashes, tid) ==
    LET counts == { MatchCount(idx, hashes, tid, MatchOffset(idx, hashes, m)) :
                      m \in { x \in Matches(idx, hashes) : MatchTrack(idx, hashes, x) = tid } }
    IN  IF counts = {} THEN 0 ELSE CHOOSE c \in counts : \A c2 \in counts : c2 <= c

\* the tracks with a match
MatchedTracks(idx, hashes) == { MatchTrack(idx, hashes, m) : m \in Matches(idx, hashes) }

\* the largest modal-offset count over all tracks, 0 without a match
BestCount(idx, hashes) ==
    LET counts == { ModalCount(idx, hashes, t) : t \in MatchedTracks(idx, hashes) }
    IN  IF counts = {} THEN 0 ELSE CHOOSE c \in counts : \A c2 \in counts : c2 <= c

\* the first match of track tid in scan order: query pairs in order, postings in list order
FirstMatch(idx, hashes, tid) ==
    CHOOSE m \in Matches(idx, hashes) :
        /\ MatchTrack(idx, hashes, m) = tid
        /\ \A x \in Matches(idx, hashes) :
              MatchTrack(idx, hashes, x) = tid =>
                 (m[1] < x[1] \/ (m[1] = x[1] /\ m[2] <= x[2]))

\* track t1 gets its first vote before track t2 does
VotedBefore(idx, hashes, t1, t2) ==
    LET m1 == FirstMatch(idx, hashes, t1)
        m2 == FirstMatch(idx, hashes, t2)
    IN  m1[1] < m2[1] \/ (m1[1] = m2[1] /\ m1[2] < m2[2])

\* the state right after objs[ret.obj].recognise returned
AfterRecognise == ret.op = "recognise"

\* the query's (hash_val, anchor_time) list and the index of the recognise call that just returned
RetHashes == _generate_hashes(ret.peaks)
RetIdx == objs[ret.obj]

\* the tracks tied at the largest score for the query of the call that just returned
TiedTracks == { t \in MatchedTracks(RetIdx, RetHashes) :
                  ModalCount(RetIdx, RetHashes, t) = BestCount(RetIdx, RetHashes) }

----------------------------------------------------------------------------
(* C1 *)

\* C1: starting from an empty FingerprintDB, the k-th track add_track inserts
\* gets id k-1: the returned ids start at 0, are contiguous and strictly increasing.
C1_IdsContiguousFromZero ==
    \A k \in 1..Len(added[1]) : added[1][k].id = k - 1

----------------------------------------------------------------------------
(* C2 *)

\* C2: in every index object, after any completed add_track, recognise, save or
\* load, the track id of every posting under every token is a key of metadata.
C2_PostingIdsInMetadata ==
    \A o \in 1..Len(objs) :
        \A post \in AllPostings(objs[o]) : post[1] \in DictKeys(objs[o].metadata)

\* a loaded index that holds postings of two tracks
C2_Witness ==
    /\ Len(objs) = 2
    /\ ret.op = "recognise" /\ ret.obj = 2
    /\ \E p1, p2 \in AllPostings(objs[2]) : p1[1] = 0 /\ p2[1] = 1

----------------------------------------------------------------------------
(* C3 *)

\* C3 as claimed: when several tracks share the largest score, recognise
\* returns the one with the smallest track id.
C3_TieReturnsSmallestId ==
    (AfterRecognise /\ ret.track # <<>>) =>
        \A t \in TiedTracks : ret.track[1] <= t

\* C3 as amended: when several tracks share the largest score, recognise returns
\* the one of them that got its first vote earliest in the scan of the query's
\* tokens and their posting lists.
C3_TieReturnsFirstVoted ==
    (AfterRecognise /\ ret.track # <<>>) =>
        /\ ret.track[1] \in TiedTracks
        /\ \A t \in TiedTracks \ {ret.track[1]} :
              VotedBefore(RetIdx, RetHashes, ret.track[1], t)

\* two tracks tie and the one returned is not the one with the smallest id
C3_Witness ==
    /\ AfterRecognise /\ ret.track # <<>>
    /\ \E t \in TiedTracks : t < ret.track[1]

----------------------------------------------------------------------------
(* C4 *)

\* C4: the score recognise returns is the largest number, over all tracks and
\* offsets, of (query pair, posting) matches on one token with
\* db_anchor - q_anchor equal to that offset, and the track returned is one whose
\* own modal-offset count is that number.
C4_ScoreIsLargestBin ==
    AfterRecognise =>
        /\ ret.score = BestCount(RetIdx, RetHashes)
        /\ \A t \in MatchedTracks(RetIdx, RetHashes), m \in Matches(RetIdx, RetHashes) :
              MatchCount(RetIdx, RetHashes, t, MatchOffset(RetIdx, RetHashes, m)) <= ret.score
        /\ ret.track # <<>> => ModalCount(RetIdx, RetHashes, ret.track[1]) = ret.score

\* a query whose matches with one track fall into two offset bins, and a score above 1
C4_Witness ==
    /\ AfterRecognise
    /\ \E m1, m2 \in Matches(RetIdx, RetHashes) :
          /\ MatchTrack(RetIdx, RetHashes, m1) = MatchTrack(RetIdx, RetHashes, m2)
          /\ MatchOffset(RetIdx, RetHashes, m1) # MatchOffset(RetIdx, RetHashes, m2)
    /\ ret.score > 1

----------------------------------------------------------------------------
(* C5 *)

\* the tracks add_track inserted into the queried index from the very audio the
\* recognise call that just returned was given
SelfIds ==
    { added[ret.obj][k].id :
        k \in { n \in 1..Len(added[ret.obj]) : added[ret.obj][n].file.peaks = ret.peaks } }

\* C5 as claimed: after add_track(track), recognise on the same track returns
\* that track's id with score > 0 and a score no smaller than the modal-offset
\* count of every other track, whatever the track.
C5_SelfRecognitionAlways ==
    AfterRecognise =>
        \A id \in SelfIds :
            /\ ret.track = <<id>>
            /\ ret.score > 0
            /\ \A t \in MatchedTracks(RetIdx, RetHashes) \ {id} :
                  ret.score >= ModalCount(RetIdx, RetHashes, t)

\* C5 as amended: after add_track(track), recognise on the same track returns
\* (None, 0) when the track yields no token; when it yields one, the score is
\* > 0 and no smaller than the modal-offset count of any track, and the id
\* returned is the track's own whenever every other track's modal-offset count
\* is smaller than the track's own.
C5_SelfRecognition ==
    AfterRecognise =>
        \A id \in SelfIds :
            IF RetHashes = <<>>
            THEN ret.track = <<>> /\ ret.score = 0
            ELSE /\ ret.score > 0
                 /\ \A t \in MatchedTracks(RetIdx, RetHashes) :
                       ret.score >= ModalCount(RetIdx, RetHashes, t)
                 /\ (\A t \in MatchedTracks(RetIdx, RetHashes) \ {id} :
                        ModalCount(RetIdx, RetHashes, t) < ModalCount(RetIdx, RetHashes, id))
                    => ret.track = <<id>>

\* a track is recognised as itself although an earlier track of the index has matches too
C5_Witness ==
    /\ AfterRecognise
    /\ \E id \in SelfIds :
          /\ ret.track = <<id>>
          /\ \E t \in MatchedTracks(RetIdx, RetHashes) : t < id

----------------------------------------------------------------------------
(* C6 *)

\* C6: recognise returns (None, 0) exactly when no query token has a posting in
\* the index; otherwise it returns a key of metadata and a score of at least 1.
C6_NoneIffNoMatch ==
    AfterRecognise =>
        IF Matches(RetIdx, RetHashes) = {}
        THEN ret.track = <<>> /\ ret.score = 0
        ELSE /\ ret.track # <<>>
             /\ ret.track[1] \in DictKeys(RetIdx.metadata)
             /\ ret.score >= 1

\* a query with tokens against an index with postings, none of them under a query token
C6_Witness ==
    /\ AfterRecognise
    /\ RetHashes # <<>>
    /\ RetIdx.hash_table # <<>>
    /\ ret.track = <<>>

----------------------------------------------------------------------------
(* C7 *)

\* how often x occurs in the sequence s
Occurrences(s, x) == Cardinality({ n \in 1..Len(s) : s[n] = x })

\* the metadata entry and every posting of the inserted track e are in the index
TrackPresent(idx, e) ==
    LET hashes == _generate_hashes(e.file.peaks) IN
    /\ DictHas(idx.metadata, e.id)
    /\ DictGet(idx.metadata, e.id) =
          (IF e.metadata = <<>> THEN << <<"title", e.file.path[2]>> >> ELSE e.metadata)
    /\ \A k \in 1..Len(hashes) :
          Occurrences(Postings(idx, hashes[k][1]), <<e.id, hashes[k][2]>>)
             = Occurrences(hashes, hashes[k])

\* C7: a track whose add_track completed before another add_track began has the
\* smaller id, and the postings and the metadata entry of both are in the index
\* afterwards.
C7_EarlierTrackKept ==
    \A o \in 1..Len(objs) :
        \A a, b \in 1..Len(added[o]) :
            /\ a < b => added[o][a].id < added[o][b].id
            /\ TrackPresent(objs[o], added[o][a])

\* two tracks were added and have postings under one and the same token
C7_Witness ==
    /\ Len(added[1]) = 2
    /\ \E n \in 1..Len(objs[1].hash_table) :
          \E p1, p2 \in 1..Len(objs[1].hash_table[n][2]) :
              /\ objs[1].hash_table[n][2][p1][1] = added[1][1].id
              /\ objs[1].hash_table[n][2][p2][1] = added[1][2].id

----------------------------------------------------------------------------
(* C8 *)

\* C8: load(save(idx)) has the hash_table (tokens, and postings in order), the
\* metadata and the next-id counter of idx, so add_track on it takes the same id.
C8_LoadOfSaveIsEqual ==
    /\ \A o \in 1..Len(objs) : LoadIndex(Dump(objs[o])) = objs[o]
    /\ ret.op = "load" =>
          /\ savedIdx # <<>>
          /\ objs[2].hash_table = savedIdx[1].hash_table
          /\ objs[2].metadata = savedIdx[1].metadata
          /\ objs[2].next_track_id = savedIdx[1].next_track_id
          /\ AddTrackId(objs[2]) = AddTrackId(savedIdx[1])

\* an index was loaded whose counter is ahead of its metadata and which has a
\* token with two postings
C8_Witness ==
    /\ ret.op = "load"
    /\ objs[2].next_track_id > Len(objs[2].metadata)
    /\ \E n \in 1..Len(objs[2].hash_table) : Len(objs[2].hash_table[n][2]) >= 2

----------------------------------------------------------------------------
(* C9 *)

\* C9: adding a constant c to the time-bin of every query peak leaves every
\* emitted token as it is, adds c to every query anchor-time, and leaves the
\* (track id, score) recognise returns as it is.
C9_TimeShiftTolerant ==
    AfterRecognise =>
        \A c \in 1..MaxShift :
            LET shifted == _generate_hashes(Shift(ret.peaks, c)) IN
            /\ Len(shifted) = Len(RetHashes)
            /\ \A k \in 1..Len(shifted) :
                  /\ shifted[k][1] = RetHashes[k][1]
                  /\ shifted[k][2] = RetHashes[k][2] + c
            /\ RecogniseResult(RetIdx, Shift(ret.peaks, c)) = <<ret.track, ret.score>>

\* a track was returned for a query whose shifted copies match at negative offsets
C9_Witness ==
    /\ AfterRecognise
    /\ ret.track # <<>>
    /\ \E m \in Matches(RetIdx, RetHashes) : MatchOffset(RetIdx, RetHashes, m) <= 0

----------------------------------------------------------------------------
(* C10 *)

\* C10: every token emitted for an anchor (t1, f1) and a target (t2, f2) is in
\* 0..2^32-1, with token >> 22 = f1 mod 1024, (token >> 12) mod 1024 = f2 mod 1024
\* and token mod 4096 = (t2 - t1) mod 4096: frequency bins above 1023 are folded.
\* (token < 2^32 is stated as token >> 22 < 1024: TLC's integers end at 2^31 - 1.)
C10_TokenBitLayout ==
    hPc = "done" =>
        LET sorted == ArgsortByTime(hIn, argsortTies)
            pairs  == HashPairs(sorted)
        IN  /\ Len(hOut) = Len(pairs)
            /\ \A k \in 1..Len(pairs) :
                  LET token == hOut[k][1]
                      a     == sorted[pairs[k][1]]
                      t     == sorted[pairs[k][2]]
                  IN  /\ token >= 0
                      /\ token \div 2^22 < 1024
                      /\ token \div 2^22 = a[2] % 1024
                      /\ (token \div 2^12) % 1024 = t[2] % 1024
                      /\ token % 4096 = (t[1] - a[1]) % 4096

\* a token was emitted for two frequency bins above 1023 at the largest time difference
C10_Witness ==
    /\ hPc = "done"
    /\ LET sorted == ArgsortByTime(hIn, argsortTies)
           pairs  == HashPairs(sorted)
       IN  \E k \in 1..Len(pairs) :
              /\ sorted[pairs[k][1]][2] > 1023
              /\ sorted[pairs[k][2]][2] > 1023
              /\ sorted[pairs[k][2]][1] - sorted[pairs[k][1]][1] = max_time_delta

----------------------------------------------------------------------------
(* C11 *)

\* C11: whatever the order of the rows given to the hasher, every emitted
\* (token, anchor-time) pair comes from two rows, an anchor and a target, with
\* min_time_delta <= target time - anchor time <= max_time_delta, and the
\* emitted anchor-time is the time-bin of the anchor, the earlier of the two.
C11_EmittedPairsInRange ==
    hPc = "done" =>
        \A k \in 1..Len(hOut) :
            \E a, t \in 1..Len(hIn) :
                /\ a # t
                /\ hIn[a][1] <= hIn[t][1]
                /\ hIn[t][1] - hIn[a][1] >= min_time_delta
                /\ hIn[t][1] - hIn[a][1] <= max_time_delta
                /\ hOut[k][2] = hIn[a][1]
                /\ hOut[k][1] = HashVal(hIn[a][2], hIn[t][2], hIn[t][1] - hIn[a][1])

\* the rows came in descending time order, one pair of them is max_time_delta
\* apart and emitted, another is further apart and not emitted
C11_Witness ==
    /\ hPc = "done"
    /\ Len(hIn) = 3
    /\ hIn[1][1] > hIn[2][1]
    /\ hIn[2][1] > hIn[3][1]
    /\ hIn[1][1] - hIn[2][1] = max_time_delta
    /\ hIn[1][1] - hIn[3][1] > max_time_delta
    /\ Len(hOut) = 2
    /\ \E k \in 1..Len(hOut) : hOut[k][2] = hIn[2][1] /\ hOut[k][1] % 4096 = max_time_delta

----------------------------------------------------------------------------
(* C12 *)

\* the rows are in ascending time order
SortedAscending(peaks) ==
    \A a, b \in 1..Len(peaks) : a < b => peaks[a][1] <= peaks[b][1]

\* the pairs (i, i+j) of the list with 1 <= j <= F and min_dt <= dt <= max_dt
ClaimPairs(peaks) ==
    { p \in (1..Len(peaks)) \X (1..Len(peaks)) :
        /\ p[2] > p[1]
        /\ p[2] - p[1] <= fan_value
        /\ peaks[p[2]][1] - peaks[p[1]][1] >= min_time_delta
        /\ peaks[p[2]][1] - peaks[p[1]][1] <= max_time_delta }

\* the position of pair p among the pairs P taken in order of i, then j
PairRank(P, p) ==
    Cardinality({ q \in P : q[1] < p[1] \/ (q[1] = p[1] /\ q[2] <= p[2]) })

----------------------------------------------------------------------------
(* C13 *)

\* C13: recognise is read-only on the index: across every recognise call, of
\* any object and for any query, the token-to-postings map (its keys and every
\* posting list), the metadata map and the next-id counter are as before the call.
C13_RecogniseReadOnly ==
    [][ret'.op = "recognise" =>
          /\ Len(objs') = Len(objs)
          /\ \A o \in 1..Len(objs) :
                /\ objs'[o].hash_table = objs[o].hash_table
                /\ objs'[o].metadata = objs[o].metadata
                /\ objs'[o].next_track_id = objs[o].next_track_id]_vars

\* recognise returned a track for a query of which some tokens are keys of the
\* hash table and some are not
C13_Witness ==
    /\ AfterRecognise
    /\ ret.track # <<>>
    /\ \E k \in 1..Len(RetHashes) : ~DictHas(RetIdx.hash_table, RetHashes[k][1])
    /\ \E k \in 1..Len(RetHashes) : DictHas(RetIdx.hash_table, RetHashes[k][1])

----------------------------------------------------------------------------
(* C14 *)

\* C14: an add_track call that raises leaves the index as it was before the
\* call: no posting is added, no metadata entry is added, and the next-id
\* counter is not advanced.
C14_RaisedAddTrackLeavesIndex ==
    [][ret'.op = "add_track_raised" =>
          \A o \in 1..Len(objs) :
              /\ objs'[o].hash_table = objs[o].hash_table
              /\ objs'[o].metadata = objs[o].metadata
              /\ objs'[o].next_track_id = objs[o].next_track_id]_vars

----------------------------------------------------------------------------
(* C15 *)

\* the recordings whose thread has not emitted its signal yet
InFlight == { n \in 1..Len(threads) : threads[n].pc # "done" }

\* the recordings whose result the GUI thread has not handled yet
Unhandled == { n \in 1..Len(threads) : ~threads[n].handled }

\* C15: from handle_record until the GUI thread has handled the recording's
\* result the button is disabled, so at most one record_and_identify thread is
\* in flight; a thread that has ended has emitted exactly one of finished and
\* error_signal, and none before; once every result is handled the button is
\* enabled again; and the label shows a match only for a finished result with
\* track_id not None and score >= 5.
C15_OneRecordingAtATime ==
    /\ Unhandled # {} => button = FALSE
    /\ Cardinality(Unhandled) <= 1
    /\ Cardinality(InFlight) <= 1
    /\ \A n \in 1..Len(threads) :
          /\ Len(threads[n].emitted) = IF threads[n].pc = "done" THEN 1 ELSE 0
          /\ \A k \in 1..Len(threads[n].emitted) :
                threads[n].emitted[k] \in {"finished", "error_signal"}
    /\ (threads # <<>> /\ Unhandled = {}) => button = TRUE
    /\ label = "matched" =>
          /\ shown # <<>>
          /\ shown[1][1] # <<>>
          /\ shown[1][2] >= 5

\* the first recording ended in error_signal and its message box was closed,
\* the second was shown as a match at score 5, the third is being recognised
C15_Witness ==
    /\ Len(threads) = 3
    /\ threads[1].emitted = <<"error_signal">>
    /\ threads[1].handled
    /\ threads[2].emitted = <<"finished">>
    /\ threads[2].handled
    /\ shown = << << <<0>>, 5 >> >>
    /\ threads[3].pc = "recog"
    /\ button = FALSE
    /\ label = "recording"

====
